---- MODULE Spec2Model ----
(***************************************************************************)
(* URL-Manager: an HTTP redirect router.  A JSON file of routes is read    *)
(* once at start; every request is matched against the loaded routes, the *)
(* best route's destination is built and a redirect (or 404 / 400) is      *)
(* answered.                                                               *)
(*                                                                         *)
(* The repository holds two builds of the program:                         *)
(*   "flat"    src/main.go           - a list of compiled routes, scanned  *)
(*                                     linearly; destination built by      *)
(*                                     Regexp.ReplaceAllString.            *)
(*   "grouped" src/unnamed/part_002  - routes grouped by raw pattern       *)
(*                                     string (urlRoutes, compositeRoutes);*)
(*                                     destination built from named        *)
(*                                     captures with strings.Replacer.     *)
(* The variable `variant` says which build is running.                     *)
(*                                                                         *)
(* Strings are sequences of tokens: a token stands for a run of characters *)
(* ("http", "://", "x.com", "/p"), and one token is one rune for the       *)
(* regular-expression engine.                                              *)
(***************************************************************************)
EXTENDS Integers, Sequences, FiniteSets, TLC

(***************************************************************************)
(* Bounds of the model.                                                    *)
(***************************************************************************)
\* Records in the route file, in the specification of the whole program.
MaxRoutes == 2
\* Records in the route file, in the specification of the loader alone.
MaxLoadRoutes == 3
\* Requests handled (one handler goroutine each).
NumHandlers == 1
\* Concurrent handlers, and the records of their route file.
NumWorkers == 2
MaxConcRoutes == 1

(***************************************************************************)
(* Program constants.                                                      *)
(***************************************************************************)
defaultRedirectStatus == 302
StatusNotFound == 404
StatusBadRequest == 400

(***************************************************************************)
(* Regular expressions (Go's regexp, RE2 syntax).  A raw pattern string is *)
(* written as a record: the patterns of the model have the shape           *)
(*     ^? literal group? $?     where group is a greedy any-text group,    *)
(*                              unnamed or named                           *)
(* and `ok` is FALSE for a string regexp.Compile rejects, such as "(".     *)
(* The empty string is Pat(FALSE, <<>>, FALSE, "", FALSE).                 *)
(***************************************************************************)
Pat(anchS, lit, hasGrp, name, anchE) ==
    [ok |-> TRUE, anchS |-> anchS, lit |-> lit, hasGrp |-> hasGrp,
     name |-> name, anchE |-> anchE]

EmptyString == Pat(FALSE, <<>>, FALSE, "", FALSE)

\* "(" : missing closing parenthesis.
BadPattern == [ok |-> FALSE, anchS |-> FALSE, lit |-> <<"(">>, hasGrp |-> FALSE,
               name |-> "", anchE |-> FALSE]

\* regexp.Compile: <<re>> on success, <<>> (nil, with an error) otherwise.
regexpCompile(pattern) == IF pattern.ok THEN <<pattern>> ELSE <<>>

\* Whether re matches s starting at offset i (0-based, as Go's indices are).
MatchAt(re, s, i) ==
    /\ re.anchS => i = 0
    /\ i + Len(re.lit) <= Len(s)
    /\ SubSeq(s, i + 1, i + Len(re.lit)) = re.lit
    /\ (~re.hasGrp /\ re.anchE) => i + Len(re.lit) = Len(s)

Min(S) == CHOOSE x \in S : \A y \in S : x <= y

\* Regexp.doExecute: the leftmost match at or after pos, as the index tuple
\* <<start, end, groupStart, groupEnd>>, or <<>> when there is none.  The group
\* is greedy and runs to the end of the text.
doExecute(re, s, pos) ==
    LET starts == {i \in pos..Len(s) : MatchAt(re, s, i)}
    IN  IF starts = {} THEN <<>>
        ELSE LET i == Min(starts)
                 e == i + Len(re.lit)
             IN  IF re.hasGrp THEN <<i, Len(s), e, Len(s)>>
                 ELSE <<i, e, -1, -1>>

\* Regexp.MatchString.
MatchString(re, s) == doExecute(re, s, 0) # <<>>

\* Regexp.SubexpNames: element 0 is the whole match, then one per group.
SubexpNames(re) == IF re.hasGrp THEN <<"", re.name>> ELSE <<"">>

\* Regexp.FindStringSubmatch: <<whole, group1, ...>>, or <<>> (nil) on no match.
FindStringSubmatch(re, s) ==
    LET a == doExecute(re, s, 0)
    IN  IF a = <<>> THEN <<>>
        ELSE IF re.hasGrp
             THEN <<SubSeq(s, a[1] + 1, a[2]), SubSeq(s, a[3] + 1, a[4])>>
             ELSE <<SubSeq(s, a[1] + 1, a[2])>>

(***************************************************************************)
(* Destination templates.  The tokens below are the variable references a  *)
(* template of the model may hold: "$1"/"$2" by number, "${name}" by name. *)
(***************************************************************************)
NumberedRef == [t \in {"$1", "$2"} |-> IF t = "$1" THEN 1 ELSE 2]
NamedRef == [t \in {"${rest}", "${nope}"} |-> IF t = "${rest}" THEN "rest" ELSE "nope"]

\* fmt.Sprintf("${%v}", key)
VarRepr(key) == CHOOSE t \in DOMAIN NamedRef : NamedRef[t] = key

\* The text of group n of match a, empty for a group that is out of range.
GroupText(re, s, a, n) ==
    IF n = 0 THEN SubSeq(s, a[1] + 1, a[2])
    ELSE IF n = 1 /\ re.hasGrp THEN SubSeq(s, a[3] + 1, a[4])
    ELSE <<>>

\* Regexp.expand: $n is the text of group n, ${name} the text of the group of
\* that name; a reference to an unknown group or name expands to nothing.
RECURSIVE expand(_, _, _, _)
expand(re, template, s, a) ==
    IF template = <<>> THEN <<>>
    ELSE LET t == Head(template)
             out == IF t \in DOMAIN NumberedRef
                      THEN GroupText(re, s, a, NumberedRef[t])
                    ELSE IF t \in DOMAIN NamedRef
                      THEN IF re.hasGrp /\ re.name = NamedRef[t]
                             THEN GroupText(re, s, a, 1)
                           ELSE <<>>
                    ELSE <<t>>
         IN  out \o expand(re, Tail(template), s, a)

\* Regexp.replaceAll, the loop behind ReplaceAllString: every non-overlapping
\* match is replaced by the expanded template; the text between and around
\* the matches is copied unchanged.
RECURSIVE replaceAll(_, _, _, _, _, _)
replaceAll(re, src, repl, searchPos, lastMatchEnd, buf) ==
    IF searchPos > Len(src)
      THEN buf \o SubSeq(src, lastMatchEnd + 1, Len(src))
    ELSE LET a == doExecute(re, src, searchPos)
         IN  IF a = <<>>
               THEN buf \o SubSeq(src, lastMatchEnd + 1, Len(src))
             ELSE LET copied == buf \o SubSeq(src, lastMatchEnd + 1, a[1])
                      \* no replacement for an empty match right after a match
                      buf2 == IF a[2] > lastMatchEnd \/ a[1] = 0
                                THEN copied \o expand(re, repl, src, a)
                              ELSE copied
                      next == IF searchPos + 1 > a[2] THEN searchPos + 1 ELSE a[2]
                  IN  replaceAll(re, src, repl, next, a[2], buf2)

ReplaceAllString(re, src, repl) == replaceAll(re, src, repl, 0, 0, <<>>)

\* strings.NewReplacer(pairs...).Replace(s): each occurrence of a key of
\* `pairs` (a map from old to new) is replaced; no key is a prefix of another.
RECURSIVE ReplacerReplace(_, _)
ReplacerReplace(pairs, s) ==
    IF s = <<>> THEN <<>>
    ELSE (IF Head(s) \in DOMAIN pairs THEN pairs[Head(s)] ELSE <<Head(s)>>)
         \o ReplacerReplace(pairs, Tail(s))

(***************************************************************************)
(* url.ParseRequestURI: TRUE when the text parses (err == nil).  It takes  *)
(* an absolute URI (scheme ":" ...) or an absolute path; a host may not    *)
(* hold '{' or '}'.                                                        *)
(***************************************************************************)
Schemes == {"http", "https"}
PathTokens == {"/", "/p"}

ParseRequestURI(rawURL) ==
    /\ rawURL # <<>>
    /\ \/ rawURL[1] \in PathTokens
       \/ /\ rawURL[1] \in Schemes
          /\ Len(rawURL) >= 2
          /\ rawURL[2] = "://"
          /\ Len(rawURL) >= 3 => rawURL[3] \notin DOMAIN NamedRef

(***************************************************************************)
(* Routes.  One record type stands for both builds' route structs: main.go *)
(* has `route` (ID, SourceURL, DestinationURL, RedirectStatus, Priority)   *)
(* and `compiledRoute` (route + CompiledSourceURL); part_002 has `Route`   *)
(* with all the fields below.  A *regexp.Regexp field is <<>> when nil and *)
(* <<re>> otherwise.  An ID is a sequence of characters.                   *)
(***************************************************************************)
Route(id, disabled, sourceURL, composite, destinationURL, redirectStatus, priority) ==
    [ID |-> id, Disabled |-> disabled, SourceURL |-> sourceURL,
     SourceScheme |-> composite[1], SourceHost |-> composite[2],
     SourcePort |-> composite[3], SourcePath |-> composite[4],
     SourceQuery |-> composite[5],
     DestinationURL |-> destinationURL, RedirectStatus |-> redirectStatus,
     Priority |-> priority,
     CompiledSourceURL |-> <<>>, CompiledSourceScheme |-> <<>>,
     CompiledSourceHost |-> <<>>, CompiledSourcePort |-> <<>>,
     CompiledSourcePath |-> <<>>, CompiledSourceQuery |-> <<>>]

NoComposite == <<EmptyString, EmptyString, EmptyString, EmptyString, EmptyString>>

\* The five composite source fields of a route, scheme first.
CompositeKeys(route) ==
    <<route.SourceScheme, route.SourceHost, route.SourcePort, route.SourcePath,
      route.SourceQuery>>

\* json.Unmarshal into main.go's []route: that struct has no Disabled field and
\* no composite source fields, and unknown JSON fields are dropped.
AsFlatRoute(r) ==
    Route(r.ID, FALSE, r.SourceURL, NoComposite, r.DestinationURL,
          r.RedirectStatus, r.Priority)

\* compiledRouteIDPattern, ^[0-9a-zA-Z-_]+$ : the characters of the class that
\* the model's IDs draw from.
IDPatternChars == {"a", "b", "c", "d", "e", "f", "0", "1", "-", "_"}
compiledRouteIDPatternMatchString(id) ==
    Len(id) >= 1 /\ \A k \in 1..Len(id) : id[k] \in IDPatternChars

(***************************************************************************)
(* The patterns, templates and route records the model draws from.         *)
(***************************************************************************)
\* ^http://(.*)$
PatHttpAny == Pat(TRUE, <<"http", "://">>, TRUE, "", TRUE)
\* ^http://(?P<rest>.*)$
PatHttpRest == Pat(TRUE, <<"http", "://">>, TRUE, "rest", TRUE)
\* x\.com , not anchored
PatXCom == Pat(FALSE, <<"x.com">>, FALSE, "", FALSE)
\* ^http$
PatSchemeHttp == Pat(TRUE, <<"http">>, FALSE, "", TRUE)

\* The README's HTTP-HTTPS redirect.
RouteReadme ==
    Route(<<"a">>, FALSE, PatHttpAny, NoComposite, <<"https", "://", "$1">>, 308, 1000)
\* The same redirect without a status, by its named group.
RouteNamed ==
    Route(<<"b">>, FALSE, PatHttpRest, NoComposite, <<"https", "://", "${rest}">>, 0, 0)
\* The README's redirect with the default status and priority.
RouteNumbered ==
    Route(<<"a">>, FALSE, PatHttpAny, NoComposite, <<"https", "://", "$1">>, 0, 0)
\* A fixed destination behind a pattern that is not anchored.
RoutePlain ==
    Route(<<"c">>, FALSE, PatXCom, NoComposite, <<"https", "://", "d.com", "/">>, 0, 0)
\* A destination that is no URL.
RouteNotAURL ==
    Route(<<"d">>, FALSE, PatHttpRest, NoComposite, <<"not a url">>, 0, 5)
\* A destination that names a group the source pattern does not have.
RouteNope ==
    Route(<<"e">>, FALSE, PatXCom, NoComposite,
          <<"https", "://", "d.com", "/", "${nope}">>, 0, 5)
\* A destination that is a path on the requested host.
RoutePath ==
    Route(<<"c">>, FALSE, PatXCom, NoComposite, <<"/p">>, 0, 0)
\* A composite source: scheme ^http$ and host x\.com.
RouteComposite ==
    Route(<<"f">>, FALSE, EmptyString,
          <<PatSchemeHttp, PatXCom, EmptyString, EmptyString, EmptyString>>,
          <<"https", "://", "d.com", "/">>, 0, 1000)
RouteDisabled ==
    Route(<<"b">>, TRUE, PatHttpAny, NoComposite, <<"https", "://", "d.com", "/">>, 0, 1000)
RouteBadID ==
    Route(<<"a", " ">>, FALSE, PatHttpAny, NoComposite, <<"https", "://", "d.com", "/">>, 0, 1000)

\* Records that fail one load-time check, or several.
RouteNoID ==
    Route(<<>>, FALSE, PatXCom, NoComposite, <<>>, 0, 0)
RouteBadRegexp ==
    Route(<<"c">>, FALSE, BadPattern, NoComposite, <<"https", "://", "d.com", "/">>, 0, 0)
RouteBadRegexpNoDestination ==
    Route(<<"c">>, FALSE, BadPattern, NoComposite, <<>>, 0, 0)
RouteNoDestination ==
    Route(<<"d">>, FALSE, PatXCom, NoComposite, <<>>, 0, 0)
RouteStatus200 ==
    Route(<<"e">>, FALSE, PatXCom, NoComposite, <<"https", "://", "d.com", "/">>, 200, 0)
RouteStatus300 ==
    Route(<<"e">>, FALSE, PatXCom, NoComposite, <<"https", "://", "d.com", "/">>, 300, 0)
RouteNoSource ==
    Route(<<"f">>, FALSE, EmptyString, NoComposite, <<"https", "://", "d.com", "/">>, 0, 0)
RouteNoSourceBadStatus ==
    Route(<<"f">>, FALSE, EmptyString, NoComposite, <<"https", "://", "d.com", "/">>, 200, 0)
RouteAmbiguous ==
    Route(<<"f">>, FALSE, PatXCom,
          <<PatSchemeHttp, EmptyString, EmptyString, EmptyString, EmptyString>>,
          <<"https", "://", "d.com", "/">>, 0, 0)
\* A composite source whose host pattern does not compile.
RouteCompositeBadHost ==
    Route(<<"f">>, FALSE, EmptyString,
          <<PatSchemeHttp, BadPattern, EmptyString, EmptyString, EmptyString>>,
          <<"https", "://", "d.com", "/">>, 0, 0)
\* A second composite source under the same scheme pattern.
RouteCompositePath ==
    Route(<<"b">>, FALSE, EmptyString,
          <<PatSchemeHttp, EmptyString, EmptyString, Pat(TRUE, <<"/p">>, FALSE, "", TRUE),
            EmptyString>>,
          <<"https", "://", "d.com", "/">>, 0, 5)

\* The records of the specification of the whole program.
ServeRecords ==
    {RouteReadme, RouteNamed, RouteNumbered, RoutePlain, RouteNotAURL, RouteNope,
     RoutePath, RouteComposite, RouteDisabled, RouteBadID}

\* The records of the specification of the loader.
LoadRecords ==
    ServeRecords \cup
    {RouteNoID, RouteBadRegexp, RouteBadRegexpNoDestination, RouteNoDestination,
     RouteStatus200, RouteStatus300, RouteNoSource, RouteNoSourceBadStatus,
     RouteAmbiguous, RouteCompositeBadHost, RouteCompositePath}

\* The label values of the per-route counters.
RouteIDs == {r.ID : r \in LoadRecords}

(***************************************************************************)
(* Requests, as net/http hands them to the handler.  A header is the list  *)
(* of its values, empty when the header is absent.                         *)
(***************************************************************************)
Request(remoteAddr, host, url, forwardedFor, forwardedProto, forwardedHost) ==
    [RemoteAddr |-> remoteAddr, Host |-> host, URL |-> url,
     XForwardedFor |-> forwardedFor, XForwardedProto |-> forwardedProto,
     XForwardedHost |-> forwardedHost]

\* GET /p  Host: x.com
ReqDirect == Request("10.0.0.1", <<"x.com">>, <<"/p">>, <<>>, <<>>, <<>>)
\* The same behind a proxy that terminates TLS; every header is repeated.
ReqProxied ==
    Request("10.0.0.2", <<"internal">>, <<"/p">>, <<"1.2.3.4", "5.6.7.8">>,
            <<"https", "http">>, <<<<"x.com">>, <<"y.org">>>>)
\* GET /  Host: y.org
ReqOther == Request("10.0.0.1", <<"y.org">>, <<"/">>, <<>>, <<>>, <<>>)
\* GET http://x.com/p  (a request target in absolute form): net/http parses
\* the target into request.URL with its scheme and host, and takes
\* request.Host from it; request.URL.String() is then the whole target.
ReqAbsolute ==
    Request("10.0.0.3", <<"x.com">>, <<"http", "://", "x.com", "/p">>, <<>>, <<>>, <<>>)

Requests == {ReqDirect, ReqProxied, ReqOther, ReqAbsolute}

\* request.URL.RequestURI(): the path and query of the request target.
RequestURI(request) ==
    IF request.URL[1] \in Schemes THEN SubSeq(request.URL, 4, Len(request.URL))
    ELSE request.URL

(***************************************************************************)
(* State.                                                                  *)
(***************************************************************************)
VARIABLES
    variant,          \* "flat" (main.go) or "grouped" (part_002)
    phase,            \* "loading" (readRouteFile) or "serving" (runServers)
    file,             \* the raw route records read so far, in file order
    routes,           \* flat: []compiledRoute; grouped: []*Route, all records
    urlRoutes,        \* grouped: map[string]*urlRouteGroup
    compositeRoutes,  \* grouped: the tree of composite groups, keyed by path
    stderr,           \* the loader's diagnostics: <<record index, error>>
    metricsTotalCounter,
    metricsNotFoundCounter,
    metricsRouteChosenCounter,
    metricsRouteMalformedDestinationCounter,
    conn              \* the handler goroutines, one per request

vars ==
    <<variant, phase, file, routes, urlRoutes, compositeRoutes, stderr,
      metricsTotalCounter, metricsNotFoundCounter, metricsRouteChosenCounter,
      metricsRouteMalformedDestinationCounter, conn>>

indexVars == <<variant, file, routes, urlRoutes, compositeRoutes, stderr>>
metricVars ==
    <<metricsTotalCounter, metricsNotFoundCounter, metricsRouteChosenCounter,
      metricsRouteMalformedDestinationCounter>>

\* An empty Go map.
EmptyMap == [k \in {} |-> {}]

\* A handler that has not received its request.
IdleConn ==
    [pc |-> "Idle", request |-> ReqDirect, realFrom |-> "", sourceURL |-> <<>>,
     route |-> 0, destinationURL |-> <<>>, status |-> 0, location |-> <<>>,
     written |-> 0]

Init ==
    /\ variant \in {"flat", "grouped"}
    /\ phase = "loading"
    /\ file = <<>>
    /\ routes = <<>>
    /\ urlRoutes = EmptyMap
    /\ compositeRoutes = EmptyMap
    /\ stderr = <<>>
    /\ metricsTotalCounter = 0
    /\ metricsNotFoundCounter = 0
    /\ metricsRouteChosenCounter = [id \in RouteIDs |-> 0]
    /\ metricsRouteMalformedDestinationCounter = [id \in RouteIDs |-> 0]
    /\ conn = [h \in 1..NumHandlers |-> IdleConn]

(***************************************************************************)
(* Loading, flat build (main.go).                                          *)
(***************************************************************************)
\* compileRoute without its switch on the redirect status: the status is
\* taken as written.
compileRouteAnyStatus(rawRoute) ==
    IF Len(rawRoute.ID) = 0 \/ ~compiledRouteIDPatternMatchString(rawRoute.ID)
      THEN [err |-> "Route ID contains illegal characters", route |-> rawRoute]
    ELSE IF rawRoute.SourceURL = EmptyString
      THEN [err |-> "Missing source URL", route |-> rawRoute]
    ELSE IF regexpCompile(rawRoute.SourceURL) = <<>>
      THEN [err |-> "Route source URL regexp won't compile.", route |-> rawRoute]
    ELSE IF rawRoute.DestinationURL = <<>>
      THEN [err |-> "Missing destination URL", route |-> rawRoute]
    ELSE [err |-> "",
          route |-> [rawRoute EXCEPT
                        !.CompiledSourceURL = regexpCompile(rawRoute.SourceURL)]]

\* compileRoute: the compiled route, or the first error.
compileRoute(rawRoute) ==
    IF Len(rawRoute.ID) = 0 \/ ~compiledRouteIDPatternMatchString(rawRoute.ID)
      THEN [err |-> "Route ID contains illegal characters", route |-> rawRoute]
    ELSE IF rawRoute.SourceURL = EmptyString
      THEN [err |-> "Missing source URL", route |-> rawRoute]
    ELSE IF regexpCompile(rawRoute.SourceURL) = <<>>
      THEN [err |-> "Route source URL regexp won't compile.", route |-> rawRoute]
    ELSE IF rawRoute.DestinationURL = <<>>
      THEN [err |-> "Missing destination URL", route |-> rawRoute]
    ELSE LET compiled ==
                 [rawRoute EXCEPT !.CompiledSourceURL = regexpCompile(rawRoute.SourceURL)]
             status == rawRoute.RedirectStatus
         IN  IF status = 0
               THEN [err |-> "",
                     route |-> [compiled EXCEPT !.RedirectStatus = defaultRedirectStatus]]
             ELSE IF status >= 301 /\ status <= 308
               THEN [err |-> "", route |-> compiled]
             ELSE [err |-> "Invalid redirect status value", route |-> rawRoute]

\* readRouteFile's loop leaving at the first route that does not compile:
\* after a reported failure nothing more is appended.
readRouteFileFlatStop(rs, errs, i, rawRoute) ==
    LET c == compileRoute(rawRoute)
    IN  IF errs # <<>>
          THEN [routes |-> rs, stderr |-> errs]
        ELSE IF c.err = ""
          THEN [routes |-> Append(rs, c.route), stderr |-> errs]
        ELSE [routes |-> rs, stderr |-> Append(errs, <<i, c.err>>)]

\* One turn of readRouteFile's loop over rawRoutes: a route that compiles is
\* appended to routes, any other is reported and skipped.
readRouteFileFlat(rs, errs, i, rawRoute) ==
    LET c == compileRoute(rawRoute)
    IN  IF c.err = ""
          THEN [routes |-> Append(rs, c.route), stderr |-> errs]
        ELSE [routes |-> rs, stderr |-> Append(errs, <<i, c.err>>)]

ReadRouteFlat(records, max) ==
    /\ variant = "flat"
    /\ phase = "loading"
    /\ Len(file) < max
    /\ \E r \in records :
         LET rawRoute == AsFlatRoute(r)
             got == readRouteFileFlat(routes, stderr, Len(file), rawRoute)
         IN  /\ file' = Append(file, rawRoute)
             /\ routes' = got.routes
             /\ stderr' = got.stderr
    /\ UNCHANGED <<variant, phase, urlRoutes, compositeRoutes, conn>>
    /\ UNCHANGED metricVars

(***************************************************************************)
(* Loading, grouped build (part_002).                                      *)
(***************************************************************************)
CompositeError ==
    <<"Route source scheme regexp won't compile.",
      "Route source host regexp won't compile.",
      "Route source port regexp won't compile.",
      "Route source path regexp won't compile.",
      "Route source query regexp won't compile.">>

\* The composite branch of loadRoute from the group of `level` on (1 scheme,
\* 2 host, 3 port, 4 path, 5 query).  A group is keyed by the raw patterns on
\* the way to it; it is looked up, or else compiled and inserted at once,
\* before the next level is tried.  `done` is the number of levels passed.
RECURSIVE loadComposite(_, _, _, _)
loadComposite(tree, keys, level, i) ==
    LET path == SubSeq(keys, 1, level)
        compiled == regexpCompile(keys[level])
        found == path \in DOMAIN tree
        tree1 == IF found THEN tree
                 ELSE tree @@ (path :> [compiled |-> compiled, routes |-> <<>>])
    IN  IF ~found /\ compiled = <<>>
          THEN [err |-> CompositeError[level], tree |-> tree, done |-> level - 1]
        ELSE IF level < 5
          THEN loadComposite(tree1, keys, level + 1, i)
        ELSE [err |-> "",
              tree |-> [tree1 EXCEPT ![path].routes = Append(@, i)],
              done |-> 5]

\* route.CompiledSource<X> = <x>Group.compiled<X>, for the levels passed.
SetCompiled(route, tree, done) ==
    LET keys == CompositeKeys(route)
        at(level) == IF level <= done THEN tree[SubSeq(keys, 1, level)].compiled ELSE <<>>
    IN  [route EXCEPT !.CompiledSourceScheme = at(1), !.CompiledSourceHost = at(2),
                      !.CompiledSourcePort = at(3), !.CompiledSourcePath = at(4),
                      !.CompiledSourceQuery = at(5)]

\* loadRoute(routes[i]) on the state st = [routes, urlRoutes, compositeRoutes]:
\* the state it leaves and the error it returns ("" for nil).
loadRoute(st, i) ==
    LET route == st.routes[i]
        fail(msg, state) == [err |-> msg, st |-> state]
        status == route.RedirectStatus
        \* *status = defaultRedirectStatus writes through the pointer
        route1 == IF status = 0
                    THEN [route EXCEPT !.RedirectStatus = defaultRedirectStatus]
                  ELSE route
        st1 == [st EXCEPT !.routes[i] = route1]
        hasSourceURL == route.SourceURL # EmptyString
        hasSourceComposite ==
            \E k \in 1..5 : CompositeKeys(route)[k] # EmptyString
    IN  IF route.ID = <<>> \/ ~compiledRouteIDPatternMatchString(route.ID)
          THEN fail("Route ID contains illegal characters", st)
        ELSE IF route.DestinationURL = <<>>
          THEN fail("Missing destination URL", st)
        ELSE IF status # 0 /\ (status < 300 \/ status > 399)
          THEN fail("Invalid redirect status value", st)
        ELSE IF ~hasSourceURL /\ ~hasSourceComposite
          THEN fail("Missing source URL or composite", st1)
        ELSE IF hasSourceURL /\ hasSourceComposite
          THEN fail("Route can't contain both a source URL and any of the source composite fields",
                    st1)
        ELSE IF hasSourceURL
          THEN LET found == route.SourceURL \in DOMAIN st.urlRoutes
                   compiled == regexpCompile(route.SourceURL)
               IN  IF ~found /\ compiled = <<>>
                     THEN fail("Route source URL regexp won't compile.", st1)
                   ELSE LET groups ==
                                IF found THEN st.urlRoutes
                                ELSE st.urlRoutes @@
                                     (route.SourceURL :>
                                        [compiledURL |-> compiled, routes |-> <<>>])
                            urlGroup == groups[route.SourceURL]
                        IN  [err |-> "",
                             st |-> [st1 EXCEPT
                                 !.routes[i].CompiledSourceURL = urlGroup.compiledURL,
                                 !.urlRoutes =
                                     [groups EXCEPT ![route.SourceURL].routes = Append(@, i)]]]
        ELSE LET got == loadComposite(st.compositeRoutes, CompositeKeys(route), 1, i)
             IN  [err |-> got.err,
                  st |-> [st1 EXCEPT
                      !.routes[i] = SetCompiled(route1, got.tree, got.done),
                      !.compositeRoutes = got.tree]]

\* One turn of readRouteFile's loop over routes: a disabled route is skipped,
\* any other is loaded, and a failure is reported.
readRouteFileGrouped(st, errs, i) ==
    IF st.routes[i].Disabled
      THEN [st |-> st, stderr |-> errs]
    ELSE LET got == loadRoute(st, i)
         IN  [st |-> got.st,
              stderr |-> IF got.err # "" THEN Append(errs, <<i - 1, got.err>>) ELSE errs]

ReadRouteGrouped(records, max) ==
    /\ variant = "grouped"
    /\ phase = "loading"
    /\ Len(file) < max
    /\ \E r \in records :
         LET st == [routes |-> Append(routes, r), urlRoutes |-> urlRoutes,
                    compositeRoutes |-> compositeRoutes]
             got == readRouteFileGrouped(st, stderr, Len(file) + 1)
         IN  /\ file' = Append(file, r)
             /\ routes' = got.st.routes
             /\ urlRoutes' = got.st.urlRoutes
             /\ compositeRoutes' = got.st.compositeRoutes
             /\ stderr' = got.stderr
    /\ UNCHANGED <<variant, phase, conn>>
    /\ UNCHANGED metricVars

\* readRouteFile returns and runServers starts the listener.
runServers ==
    /\ phase = "loading"
    /\ phase' = "serving"
    /\ UNCHANGED <<variant, file, routes, urlRoutes, compositeRoutes, stderr, conn>>
    /\ UNCHANGED metricVars

NextLoad ==
    \/ ReadRouteFlat(LoadRecords, MaxLoadRoutes)
    \/ ReadRouteGrouped(LoadRecords, MaxLoadRoutes)
    \/ runServers

SpecLoad == Init /\ [][NextLoad]_vars

(***************************************************************************)
(* handleMainRequest.  The two builds share the head (total counter,       *)
(* source URL) and the tail (404, 400, redirect) of the handler; they      *)
(* differ in how the route is found and how the destination is built.      *)
(* A handler's pc is the state of its request:                             *)
(*   Idle -> Received -> SourceBuilt -> Matched | Unmatched                *)
(*        -> DestinationBuilt | MalformedDestination -> Responded          *)
(***************************************************************************)
\* The first value of a header when it is present, the local value otherwise.
realFrom(request) ==
    IF Len(request.XForwardedFor) > 0 THEN request.XForwardedFor[1]
    ELSE request.RemoteAddr
realProto(request) ==
    IF Len(request.XForwardedProto) > 0 THEN request.XForwardedProto[1]
    ELSE "http"
realHost(request) ==
    IF Len(request.XForwardedHost) > 0 THEN request.XForwardedHost[1]
    ELSE request.Host

\* fmt.Sprintf("%v://%v%v", realProto, realHost, request.URL)
buildSourceURL(request) ==
    <<realProto(request), "://">> \o realHost(request) \o request.URL

\* A listener that is started before readRouteFile has returned: requests
\* are received while routes are still being loaded.
ReceiveWhileLoading(h) ==
    /\ conn[h].pc = "Idle"
    /\ \E request \in Requests :
         conn' = [conn EXCEPT ![h].pc = "Received", ![h].request = request]
    /\ metricsTotalCounter' = metricsTotalCounter + 1
    /\ UNCHANGED <<phase, metricsNotFoundCounter, metricsRouteChosenCounter,
                   metricsRouteMalformedDestinationCounter>>
    /\ UNCHANGED indexVars

\* metricsTotalCounter.Inc() on entry.
Receive(h) ==
    /\ phase = "serving"
    /\ conn[h].pc = "Idle"
    /\ \E request \in Requests :
         conn' = [conn EXCEPT ![h].pc = "Received", ![h].request = request]
    /\ metricsTotalCounter' = metricsTotalCounter + 1
    /\ UNCHANGED <<phase, metricsNotFoundCounter, metricsRouteChosenCounter,
                   metricsRouteMalformedDestinationCounter>>
    /\ UNCHANGED indexVars

BuildSourceURL(h) ==
    /\ conn[h].pc = "Received"
    /\ conn' = [conn EXCEPT ![h].pc = "SourceBuilt",
                            ![h].realFrom = realFrom(conn[h].request),
                            ![h].sourceURL = buildSourceURL(conn[h].request)]
    /\ UNCHANGED <<phase, indexVars, metricVars>>

\* The linear search without the test of the route's pattern.
RECURSIVE linearSearchAnyRoute(_, _, _, _)
linearSearchAnyRoute(rs, sourceURL, i, bestRouteID) ==
    IF i > Len(rs) THEN bestRouteID
    ELSE LET better == bestRouteID = 0 \/ rs[i].Priority > rs[bestRouteID].Priority
         IN  linearSearchAnyRoute(rs, sourceURL, i + 1,
                                  IF better THEN i ELSE bestRouteID)

\* The linear search replacing the best route on an equal priority too.
RECURSIVE linearSearchLastWins(_, _, _, _)
linearSearchLastWins(rs, sourceURL, i, bestRouteID) ==
    IF i > Len(rs) THEN bestRouteID
    ELSE LET better ==
                 /\ MatchString(rs[i].CompiledSourceURL[1], sourceURL)
                 /\ \/ bestRouteID = 0
                    \/ rs[i].Priority >= rs[bestRouteID].Priority
         IN  linearSearchLastWins(rs, sourceURL, i + 1,
                                  IF better THEN i ELSE bestRouteID)

\* main.go: the linear search over routes from index i on (1-based; 0 is the
\* code's -1, no route).
RECURSIVE linearSearch(_, _, _, _)
linearSearch(rs, sourceURL, i, bestRouteID) ==
    IF i > Len(rs) THEN bestRouteID
    ELSE LET better ==
                 /\ MatchString(rs[i].CompiledSourceURL[1], sourceURL)
                 /\ \/ bestRouteID = 0
                    \/ rs[i].Priority > rs[bestRouteID].Priority
         IN  linearSearch(rs, sourceURL, i + 1, IF better THEN i ELSE bestRouteID)

MatchedPc(route) == IF route = 0 THEN "Unmatched" ELSE "Matched"

FindRouteFlat(h) ==
    /\ variant = "flat"
    /\ conn[h].pc = "SourceBuilt"
    /\ LET best == linearSearch(routes, conn[h].sourceURL, 1, 0)
       IN  conn' = [conn EXCEPT ![h].pc = MatchedPc(best), ![h].route = best]
    /\ UNCHANGED <<phase, indexVars, metricVars>>

\* part_002: the inner loop of findBestRoute over one group's routes.
RECURSIVE bestOfGroup(_, _, _, _)
bestOfGroup(rs, members, k, bestRoute) ==
    IF k > Len(members) THEN bestRoute
    ELSE LET route == members[k]
             better == bestRoute = 0 \/ rs[route].Priority > rs[bestRoute].Priority
         IN  bestOfGroup(rs, members, k + 1, IF better THEN route ELSE bestRoute)

\* part_002: findBestRoute's loop over urlRoutes, visited in `order`.  The
\* composite routes are not looked at.
RECURSIVE findBestRouteFrom(_, _, _, _, _, _)
findBestRouteFrom(rs, groups, sourceURL, order, k, bestRoute) ==
    IF k > Len(order) THEN bestRoute
    ELSE LET urlGroup == groups[order[k]]
             best == IF MatchString(urlGroup.compiledURL[1], sourceURL)
                       THEN bestOfGroup(rs, urlGroup.routes, 1, bestRoute)
                     ELSE bestRoute
         IN  findBestRouteFrom(rs, groups, sourceURL, order, k + 1, best)

findBestRoute(sourceURL, order) ==
    findBestRouteFrom(routes, urlRoutes, sourceURL, order, 1, 0)

\* The orders in which a range over a Go map may visit its keys: any.
IterationOrders(map) ==
    LET keys == DOMAIN map
        n == Cardinality(keys)
    IN  {o \in [1..n -> keys] : \A a, b \in 1..n : o[a] = o[b] => a = b}

FindRouteGrouped(h) ==
    /\ variant = "grouped"
    /\ conn[h].pc = "SourceBuilt"
    /\ \E order \in IterationOrders(urlRoutes) :
         LET best == findBestRoute(conn[h].sourceURL, order)
         IN  conn' = [conn EXCEPT ![h].pc = MatchedPc(best), ![h].route = best]
    /\ UNCHANGED <<phase, indexVars, metricVars>>

\* The 404 with a counter that is read and written back without atomicity:
\* of the handlers that answer 404 at the same time, one increment is lost.
NotFoundLostUpdate(h) ==
    /\ conn[h].pc = "Unmatched"
    /\ conn' = [conn EXCEPT ![h].pc = "Responded", ![h].status = StatusNotFound,
                            ![h].written = @ + 1]
    /\ metricsNotFoundCounter' =
           IF \E g \in DOMAIN conn : g # h /\ conn[g].pc = "Unmatched"
             THEN metricsNotFoundCounter
           ELSE metricsNotFoundCounter + 1
    /\ UNCHANGED <<phase, metricsTotalCounter, metricsRouteChosenCounter,
                   metricsRouteMalformedDestinationCounter>>
    /\ UNCHANGED indexVars

\* http.Error(404), metricsNotFoundCounter.Inc(), return.
NotFound(h) ==
    /\ conn[h].pc = "Unmatched"
    /\ conn' = [conn EXCEPT ![h].pc = "Responded", ![h].status = StatusNotFound,
                            ![h].written = @ + 1]
    /\ metricsNotFoundCounter' = metricsNotFoundCounter + 1
    /\ UNCHANGED <<phase, metricsTotalCounter, metricsRouteChosenCounter,
                   metricsRouteMalformedDestinationCounter>>
    /\ UNCHANGED indexVars

\* The handler without the check of the destination.
DestinationPcUnchecked(destinationURL) == "DestinationBuilt"

\* if _, err := url.ParseRequestURI(destinationURL); err != nil
DestinationPc(destinationURL) ==
    IF ParseRequestURI(destinationURL) THEN "DestinationBuilt"
    ELSE "MalformedDestination"

\* main.go: route.CompiledSourceURL.ReplaceAllString(sourceURL, route.DestinationURL)
destinationFlat(route, sourceURL) ==
    ReplaceAllString(route.CompiledSourceURL[1], sourceURL, route.DestinationURL)

BuildDestinationFlat(h) ==
    /\ variant = "flat"
    /\ conn[h].pc = "Matched"
    /\ LET route == routes[conn[h].route]
           destinationURL == destinationFlat(route, conn[h].sourceURL)
       IN  /\ metricsRouteChosenCounter' =
                  [metricsRouteChosenCounter EXCEPT ![route.ID] = @ + 1]
           /\ conn' = [conn EXCEPT ![h].pc = DestinationPc(destinationURL),
                                   ![h].destinationURL = destinationURL]
    /\ UNCHANGED <<phase, metricsTotalCounter, metricsNotFoundCounter,
                   metricsRouteMalformedDestinationCounter>>
    /\ UNCHANGED indexVars

\* part_002: the named groups of the URL pattern and what they captured.
varMatches(re, sourceURL) ==
    LET varCaptures == FindStringSubmatch(re, sourceURL)
        varCaptureNames == SubexpNames(re)
        named == {i \in 2..Len(varCaptures) : varCaptureNames[i] # ""}
    IN  [name \in {varCaptureNames[i] : i \in named} |->
           varCaptures[CHOOSE i \in named : varCaptureNames[i] = name]]

\* part_002: every "${key}" of the template, for the keys of varMatches, is
\* replaced by the key's value.
destinationGrouped(route, sourceURL) ==
    LET matches == varMatches(route.CompiledSourceURL[1], sourceURL)
        varOldNewPairs ==
            [varRepr \in {VarRepr(key) : key \in DOMAIN matches} |->
               matches[NamedRef[varRepr]]]
    IN  ReplacerReplace(varOldNewPairs, route.DestinationURL)

\* A route without a compiled URL pattern makes FindStringSubmatch dereference
\* nil: the handler panics and answers nothing.
BuildDestinationGrouped(h) ==
    /\ variant = "grouped"
    /\ conn[h].pc = "Matched"
    /\ LET route == routes[conn[h].route]
       IN  /\ metricsRouteChosenCounter' =
                  [metricsRouteChosenCounter EXCEPT ![route.ID] = @ + 1]
           /\ IF route.CompiledSourceURL = <<>>
                THEN conn' = [conn EXCEPT ![h].pc = "Panicked"]
              ELSE LET destinationURL == destinationGrouped(route, conn[h].sourceURL)
                   IN  conn' = [conn EXCEPT ![h].pc = DestinationPc(destinationURL),
                                            ![h].destinationURL = destinationURL]
    /\ UNCHANGED <<phase, metricsTotalCounter, metricsNotFoundCounter,
                   metricsRouteMalformedDestinationCounter>>
    /\ UNCHANGED indexVars

\* http.Error(400), metricsRouteMalformedDestinationCounter.Inc(), return.
BadRequest(h) ==
    /\ conn[h].pc = "MalformedDestination"
    /\ conn' = [conn EXCEPT ![h].pc = "Responded", ![h].status = StatusBadRequest,
                            ![h].written = @ + 1]
    /\ metricsRouteMalformedDestinationCounter' =
           [metricsRouteMalformedDestinationCounter EXCEPT
               ![routes[conn[h].route].ID] = @ + 1]
    /\ UNCHANGED <<phase, metricsTotalCounter, metricsNotFoundCounter,
                   metricsRouteChosenCounter>>
    /\ UNCHANGED indexVars

\* The redirect answered with the default status whatever the route's is.
RedirectDefaultStatus(h) ==
    /\ conn[h].pc = "DestinationBuilt"
    /\ conn' = [conn EXCEPT ![h].pc = "Responded",
                            ![h].status = defaultRedirectStatus,
                            ![h].location = conn[h].destinationURL,
                            ![h].written = @ + 1]
    /\ UNCHANGED <<phase, indexVars, metricVars>>

\* http.Redirect(response, request, destinationURL, route.RedirectStatus)
Redirect(h) ==
    /\ conn[h].pc = "DestinationBuilt"
    /\ conn' = [conn EXCEPT ![h].pc = "Responded",
                            ![h].status = routes[conn[h].route].RedirectStatus,
                            ![h].location = conn[h].destinationURL,
                            ![h].written = @ + 1]
    /\ UNCHANGED <<phase, indexVars, metricVars>>

Next ==
    \/ ReadRouteFlat(ServeRecords, MaxRoutes)
    \/ ReadRouteGrouped(ServeRecords, MaxRoutes)
    \/ runServers
    \/ \E h \in DOMAIN conn : Receive(h)
    \/ \E h \in DOMAIN conn : BuildSourceURL(h)
    \/ \E h \in DOMAIN conn : FindRouteFlat(h)
    \/ \E h \in DOMAIN conn : FindRouteGrouped(h)
    \/ \E h \in DOMAIN conn : NotFound(h)
    \/ \E h \in DOMAIN conn : BuildDestinationFlat(h)
    \/ \E h \in DOMAIN conn : BuildDestinationGrouped(h)
    \/ \E h \in DOMAIN conn : BadRequest(h)
    \/ \E h \in DOMAIN conn : Redirect(h)

Spec == Init /\ [][Next]_vars

\* The steps of one handler goroutine after it has received its request.
handleMainRequest(h) ==
    \/ BuildSourceURL(h)
    \/ FindRouteFlat(h)
    \/ FindRouteGrouped(h)
    \/ NotFound(h)
    \/ BuildDestinationFlat(h)
    \/ BuildDestinationGrouped(h)
    \/ BadRequest(h)
    \/ Redirect(h)

\* The Go scheduler lets every goroutine that can run take its next step, and
\* no step of the handler blocks.
SpecFair == Spec /\ \A h \in 1..NumHandlers : WF_vars(handleMainRequest(h))

(***************************************************************************)
(* The server under concurrent requests: net/http runs handleMainRequest   *)
(* in one goroutine per connection.  NumWorkers handlers run at once over  *)
(* a route file of up to MaxConcRoutes records.  Counter.Inc() of the      *)
(* Prometheus client is an atomic add, so an increment is one step.        *)
(***************************************************************************)
ConcRecords == {RouteReadme, RouteNotAURL}

InitConc ==
    /\ variant \in {"flat", "grouped"}
    /\ phase = "loading"
    /\ file = <<>>
    /\ routes = <<>>
    /\ urlRoutes = EmptyMap
    /\ compositeRoutes = EmptyMap
    /\ stderr = <<>>
    /\ metricsTotalCounter = 0
    /\ metricsNotFoundCounter = 0
    /\ metricsRouteChosenCounter = [id \in RouteIDs |-> 0]
    /\ metricsRouteMalformedDestinationCounter = [id \in RouteIDs |-> 0]
    /\ conn = [h \in 1..NumWorkers |-> IdleConn]

NextConc ==
    \/ ReadRouteFlat(ConcRecords, MaxConcRoutes)
    \/ ReadRouteGrouped(ConcRecords, MaxConcRoutes)
    \/ runServers
    \/ \E h \in DOMAIN conn : Receive(h)
    \/ \E h \in DOMAIN conn : BuildSourceURL(h)
    \/ \E h \in DOMAIN conn : FindRouteFlat(h)
    \/ \E h \in DOMAIN conn : FindRouteGrouped(h)
    \/ \E h \in DOMAIN conn : NotFound(h)
    \/ \E h \in DOMAIN conn : BuildDestinationFlat(h)
    \/ \E h \in DOMAIN conn : BuildDestinationGrouped(h)
    \/ \E h \in DOMAIN conn : BadRequest(h)
    \/ \E h \in DOMAIN conn : Redirect(h)

SpecConc == InitConc /\ [][NextConc]_vars

(***************************************************************************)
(* What the claims speak of.                                               *)
(***************************************************************************)
Range(seq) == {seq[k] : k \in 1..Len(seq)}

\* The routes in the index, as indices into routes: all of the flat build's
\* list; the members of the grouped build's URL groups and composite leaves.
Loaded ==
    IF variant = "flat" THEN 1..Len(routes)
    ELSE {i \in 1..Len(routes) :
            \/ \E key \in DOMAIN urlRoutes : i \in Range(urlRoutes[key].routes)
            \/ \E path \in DOMAIN compositeRoutes :
                 i \in Range(compositeRoutes[path].routes)}

\* How often route i is held by the grouped build's index.
Occurrences(i) ==
    Cardinality({<<key, k>> \in (DOMAIN urlRoutes) \X (1..Len(routes)) :
                   /\ k <= Len(urlRoutes[key].routes)
                   /\ urlRoutes[key].routes[k] = i})
    + Cardinality({<<path, k>> \in (DOMAIN compositeRoutes) \X (1..Len(routes)) :
                     /\ k <= Len(compositeRoutes[path].routes)
                     /\ compositeRoutes[path].routes[k] = i})

\* The scheme, host, port, path and query of a request's source URL.  (The
\* requests of the model carry neither a port nor a query.)
SourceComponents(request) ==
    <<<<realProto(request)>>, realHost(request), <<>>, RequestURI(request), <<>>>>

\* A route's own source pattern, or patterns, tested against a request on
\* their own: the URL pattern against the source URL, or each of the five
\* composite patterns against its component.
RuleMatches(route, request) ==
    IF route.SourceURL # EmptyString
      THEN route.SourceURL.ok /\ MatchString(route.SourceURL, buildSourceURL(request))
    ELSE \A k \in 1..5 :
           /\ CompositeKeys(route)[k].ok
           /\ MatchString(CompositeKeys(route)[k], SourceComponents(request)[k])

\* The loaded routes whose patterns match a request.
Matching(request) == {i \in Loaded : RuleMatches(routes[i], request)}

\* The routes the resolver compares priorities of: in main.go those whose
\* pattern matches, in part_002 the members of the URL groups whose pattern
\* matches.
Candidates(sourceURL) ==
    IF variant = "flat"
      THEN {i \in 1..Len(routes) : MatchString(routes[i].CompiledSourceURL[1], sourceURL)}
    ELSE {i \in 1..Len(routes) :
            \E key \in DOMAIN urlRoutes :
               /\ MatchString(urlRoutes[key].compiledURL[1], sourceURL)
               /\ i \in Range(urlRoutes[key].routes)}

\* The states of a request from the resolver's answer on, and from the
\* destination on.
AfterFindRoute ==
    {"Matched", "Unmatched", "DestinationBuilt", "MalformedDestination", "Responded",
     "Panicked"}
AfterDestination == {"DestinationBuilt", "MalformedDestination", "Responded"}

\* Whether a load-time check rejects a raw record, whatever the order of the
\* checks: the flat build takes statuses 301..308, the grouped build 300..399.
PassesChecks(r) ==
    /\ compiledRouteIDPatternMatchString(r.ID)
    /\ r.DestinationURL # <<>>
    /\ \/ r.RedirectStatus = 0
       \/ IF variant = "flat" THEN r.RedirectStatus \in 301..308
          ELSE r.RedirectStatus \in 300..399
    /\ \/ /\ r.SourceURL # EmptyString
          /\ CompositeKeys(r) = NoComposite
          /\ r.SourceURL.ok
       \/ /\ r.SourceURL = EmptyString
          /\ CompositeKeys(r) # NoComposite
          /\ \A k \in 1..5 : CompositeKeys(r)[k].ok

ShouldLoad(r) == ~r.Disabled /\ PassesChecks(r)

\* The raw fields of a loaded route are those of the record r.
SameRule(route, r) ==
    /\ route.ID = r.ID
    /\ route.SourceURL = r.SourceURL
    /\ CompositeKeys(route) = CompositeKeys(r)
    /\ route.DestinationURL = r.DestinationURL
    /\ route.Priority = r.Priority

(***************************************************************************)
(* C1.  When at least one loaded rule matches the source URL, the rule the *)
(* resolver selects matches it and no loaded matching rule has a greater   *)
(* priority.                                                               *)
(***************************************************************************)
C1_SelectedHasTopPriority ==
    \A h \in DOMAIN conn :
        (conn[h].pc \in AfterFindRoute /\ Matching(conn[h].request) # {}) =>
            /\ conn[h].route \in Matching(conn[h].request)
            /\ \A j \in Matching(conn[h].request) :
                 routes[conn[h].route].Priority >= routes[j].Priority

\* The same, for the rules with a single URL pattern: what both builds do.
C1_TopPriorityAmongURLRules ==
    \A h \in DOMAIN conn :
        LET urlMatching == {i \in Matching(conn[h].request) :
                              routes[i].SourceURL # EmptyString}
        IN  (conn[h].pc \in AfterFindRoute /\ urlMatching # {}) =>
                /\ conn[h].route \in urlMatching
                /\ \A j \in urlMatching :
                     routes[conn[h].route].Priority >= routes[j].Priority

(***************************************************************************)
(* C2.  A request whose source URL no loaded rule matches ends with 404:   *)
(* the resolver finds nothing, the one response is the 404 without a       *)
(* Location, and the step that answers adds one to the not-found counter   *)
(* and leaves the per-rule counters alone.  Flat and grouped alike.        *)
(***************************************************************************)
NoMatchState(h) ==
    (conn[h].pc \in AfterFindRoute /\ Matching(conn[h].request) = {}) =>
        /\ conn[h].route = 0
        /\ conn[h].pc \in {"Unmatched", "Responded"}
        /\ conn[h].location = <<>>
        /\ conn[h].pc = "Unmatched" => conn[h].written = 0
        /\ conn[h].pc = "Responded" =>
              conn[h].status = StatusNotFound /\ conn[h].written = 1

NoMatchStep(h) ==
    (conn[h].pc \in AfterFindRoute /\ Matching(conn[h].request) = {}
       /\ conn'[h] # conn[h]) =>
        /\ conn[h].pc = "Unmatched"
        /\ conn'[h].pc = "Responded"
        /\ metricsNotFoundCounter' = metricsNotFoundCounter + 1
        /\ metricsRouteChosenCounter' = metricsRouteChosenCounter
        /\ metricsRouteMalformedDestinationCounter' =
               metricsRouteMalformedDestinationCounter

C2_NoMatchIs404 ==
    /\ [](\A h \in DOMAIN conn : NoMatchState(h))
    /\ [][\A h \in DOMAIN conn : NoMatchStep(h)]_vars

\* A 404 was answered although routes are loaded.
C2_Witness ==
    \E h \in DOMAIN conn :
        /\ conn[h].pc = "Responded"
        /\ conn[h].status = StatusNotFound
        /\ Loaded # {}
        /\ Matching(conn[h].request) = {}
        /\ metricsNotFoundCounter >= 1

C4_CandidatesAreTheMatchingRules ==
    \A h \in DOMAIN conn :
        conn[h].pc \in AfterFindRoute =>
            Candidates(conn[h].sourceURL) = Matching(conn[h].request)

(***************************************************************************)
(* C5.  For a loaded configuration and a source URL, every run of the      *)
(* resolver selects the same rule: the rule a request got is the rule any  *)
(* other visiting order of the index gives.                                *)
(***************************************************************************)
C5_SelectionIsDeterministic ==
    \A h \in DOMAIN conn :
        conn[h].pc \in AfterFindRoute =>
            IF variant = "flat"
              THEN linearSearch(routes, conn[h].sourceURL, 1, 0) = conn[h].route
            ELSE \A order \in IterationOrders(urlRoutes) :
                   findBestRoute(conn[h].sourceURL, order) = conn[h].route

(***************************************************************************)
(* C6.  Every rule in the index has a compiled regular expression for each *)
(* source pattern it declares, a destination template that is not empty,   *)
(* and a redirect status within 300..399: 302 where the record has 0, the  *)
(* record's own status otherwise.                                          *)
(***************************************************************************)
CompiledKeys(route) ==
    <<route.CompiledSourceScheme, route.CompiledSourceHost, route.CompiledSourcePort,
      route.CompiledSourcePath, route.CompiledSourceQuery>>

\* The record a loaded route was read from.
RecordOf(i) ==
    IF variant = "flat" THEN SelectSeq(file, ShouldLoad)[i] ELSE file[i]

C6_LoadedRulesAreWellFormed ==
    /\ variant = "flat" => Len(routes) = Len(SelectSeq(file, ShouldLoad))
    /\ \A i \in Loaded :
         LET route == routes[i]
         IN  /\ route.SourceURL # EmptyString =>
                   route.CompiledSourceURL = <<route.SourceURL>>
             /\ \A k \in 1..5 :
                   CompositeKeys(route)[k] # EmptyString =>
                       CompiledKeys(route)[k] = <<CompositeKeys(route)[k]>>
             /\ route.SourceURL # EmptyString \/ CompositeKeys(route) # NoComposite
             /\ route.DestinationURL # <<>>
             /\ route.RedirectStatus \in 300..399
             /\ route.RedirectStatus =
                   IF RecordOf(i).RedirectStatus = 0 THEN defaultRedirectStatus
                   ELSE RecordOf(i).RedirectStatus

\* A rule without a status was loaded with 302, and a record with status 200
\* was kept out.
C6_Witness ==
    /\ variant = "grouped"
    /\ \E i \in Loaded :
         file[i].RedirectStatus = 0 /\ routes[i].RedirectStatus = defaultRedirectStatus
    /\ \E j \in 1..Len(file) :
         file[j].RedirectStatus = 200 /\ j \notin Loaded /\ ~file[j].Disabled

(***************************************************************************)
(* C7.  A request whose selected rule gives a destination that             *)
(* url.ParseRequestURI rejects (neither an absolute URI nor an absolute    *)
(* path) is answered 400 and nothing else: no Location, one response, the  *)
(* malformed-destination counter of that rule one up and no other counter  *)
(* touched, no panic, and nothing after the answer.                        *)
(***************************************************************************)
Malformed(h) ==
    /\ conn[h].pc \in AfterDestination
    /\ conn[h].route # 0
    /\ ~ParseRequestURI(conn[h].destinationURL)

MalformedState(h) ==
    /\ conn[h].pc # "Panicked"
    /\ Malformed(h) =>
         /\ conn[h].pc \in {"MalformedDestination", "Responded"}
         /\ conn[h].location = <<>>
         /\ conn[h].pc = "MalformedDestination" => conn[h].written = 0
         /\ conn[h].pc = "Responded" =>
               conn[h].status = StatusBadRequest /\ conn[h].written = 1

MalformedStep(h) ==
    (Malformed(h) /\ conn'[h] # conn[h]) =>
        /\ conn[h].pc = "MalformedDestination"
        /\ conn'[h].pc = "Responded"
        /\ metricsRouteMalformedDestinationCounter' =
               [metricsRouteMalformedDestinationCounter EXCEPT
                   ![routes[conn[h].route].ID] = @ + 1]
        /\ UNCHANGED <<metricsTotalCounter, metricsNotFoundCounter,
                       metricsRouteChosenCounter>>

C7_MalformedDestinationIs400 ==
    /\ [](\A h \in DOMAIN conn : MalformedState(h))
    /\ [][\A h \in DOMAIN conn : MalformedStep(h)]_vars

\* "not a url" was answered with 400 and counted for its rule.
C7_Witness ==
    \E h \in DOMAIN conn :
        /\ conn[h].pc = "Responded"
        /\ conn[h].status = StatusBadRequest
        /\ conn[h].destinationURL = <<"not a url">>
        /\ metricsRouteMalformedDestinationCounter[routes[conn[h].route].ID] = 1

\* C7 as first stated: every destination that is not a well-formed absolute
\* URL, scheme and all, is answered 400 without a redirect.
WellFormedAbsoluteURL(u) == ParseRequestURI(u) /\ u[1] \in Schemes

C7_NotAbsoluteIs400 ==
    \A h \in DOMAIN conn :
        (/\ conn[h].pc \in AfterDestination
         /\ conn[h].route # 0
         /\ ~WellFormedAbsoluteURL(conn[h].destinationURL)) =>
            /\ conn[h].pc \in {"MalformedDestination", "Responded"}
            /\ conn[h].location = <<>>
            /\ conn[h].pc = "Responded" => conn[h].status = StatusBadRequest

(***************************************************************************)
(* C8.  In the resolved destination every ${name} of the template stands   *)
(* replaced: by the text the group of that name captured, or by nothing    *)
(* when the source pattern has no such group.  No ${name} is left.         *)
(***************************************************************************)
\* The template with each ${name} replaced as the claim says.
RECURSIVE Substituted(_, _, _)
Substituted(template, re, sourceURL) ==
    IF template = <<>> THEN <<>>
    ELSE LET t == Head(template)
             out == IF t \notin DOMAIN NamedRef THEN <<t>>
                    ELSE IF re.hasGrp /\ re.name = NamedRef[t]
                      THEN FindStringSubmatch(re, sourceURL)[2]
                    ELSE <<>>
         IN  out \o Substituted(Tail(template), re, sourceURL)

C8_NamedReferencesAreReplaced ==
    \A h \in DOMAIN conn :
        (conn[h].pc \in AfterDestination /\ conn[h].route # 0) =>
            LET route == routes[conn[h].route]
                numbered == \E k \in 1..Len(route.DestinationURL) :
                               route.DestinationURL[k] \in DOMAIN NumberedRef
                whole == route.SourceURL.anchS
                         /\ (route.SourceURL.anchE \/ route.SourceURL.hasGrp)
            IN  /\ \A k \in 1..Len(conn[h].destinationURL) :
                     conn[h].destinationURL[k] \notin DOMAIN NamedRef
                \* for a pattern that takes the whole URL and a template
                \* without $1, the destination is the substituted template
                /\ (whole /\ ~numbered) =>
                     conn[h].destinationURL =
                       Substituted(route.DestinationURL, route.SourceURL, conn[h].sourceURL)

(***************************************************************************)
(* C9.  A destination template without variable references resolves to    *)
(* itself, whatever the source pattern and whatever it matched.            *)
(***************************************************************************)
HasNoReference(template) ==
    \A k \in 1..Len(template) :
        template[k] \notin (DOMAIN NamedRef \cup DOMAIN NumberedRef)

C9_PlainTemplateIsTheDestination ==
    \A h \in DOMAIN conn :
        (/\ conn[h].pc \in AfterDestination
         /\ conn[h].route # 0
         /\ HasNoReference(routes[conn[h].route].DestinationURL)) =>
            conn[h].destinationURL = routes[conn[h].route].DestinationURL

(***************************************************************************)
(* C10.  With the README's rule (PatHttpAny as source_url, https://$1 as   *)
(* destination), a request for http://R is redirected to https://R with    *)
(* the rule's status, 302 when the rule configures none.                   *)
(***************************************************************************)
C10_NumberedReferenceRedirect ==
    \A h \in DOMAIN conn :
        (/\ conn[h].pc \in AfterDestination
         /\ conn[h].route # 0
         /\ routes[conn[h].route].SourceURL = PatHttpAny
         /\ routes[conn[h].route].DestinationURL = <<"https", "://", "$1">>) =>
            LET R == SubSeq(conn[h].sourceURL, 3, Len(conn[h].sourceURL))
                configured == RecordOf(conn[h].route).RedirectStatus
            IN  /\ conn[h].destinationURL = <<"https", "://">> \o R
                /\ conn[h].pc # "MalformedDestination"
                /\ conn[h].pc = "Responded" =>
                     /\ conn[h].location = <<"https", "://">> \o R
                     /\ conn[h].status =
                          IF configured = 0 THEN defaultRedirectStatus ELSE configured

(***************************************************************************)
(* C11.  A handled request goes Received, SourceBuilt, Matched or          *)
(* Unmatched, then (when matched) DestinationBuilt or MalformedDestination,*)
(* and ends Responded with exactly one response: 404 when the resolver     *)
(* found no rule, 400 when the destination did not parse, otherwise the    *)
(* redirect with the route's status and the destination as Location.       *)
(***************************************************************************)
Lifecycle ==
    {<<"Idle", "Received">>, <<"Received", "SourceBuilt">>,
     <<"SourceBuilt", "Matched">>, <<"SourceBuilt", "Unmatched">>,
     <<"Unmatched", "Responded">>, <<"Matched", "DestinationBuilt">>,
     <<"Matched", "MalformedDestination">>,
     <<"DestinationBuilt", "Responded">>, <<"MalformedDestination", "Responded">>}

LifecycleState(h) ==
    LET c == conn[h]
    IN  /\ c.pc # "Responded" => c.written = 0 /\ c.status = 0 /\ c.location = <<>>
        /\ c.pc \in {"Matched", "DestinationBuilt", "MalformedDestination"} => c.route # 0
        /\ c.pc = "Unmatched" => c.route = 0
        /\ c.pc = "DestinationBuilt" => ParseRequestURI(c.destinationURL)
        /\ c.pc = "MalformedDestination" => ~ParseRequestURI(c.destinationURL)
        /\ c.pc = "Responded" =>
             /\ c.written = 1
             /\ IF c.route = 0
                  THEN c.status = StatusNotFound /\ c.location = <<>>
                ELSE IF ~ParseRequestURI(c.destinationURL)
                  THEN c.status = StatusBadRequest /\ c.location = <<>>
                ELSE /\ c.status = routes[c.route].RedirectStatus
                     /\ c.status = IF RecordOf(c.route).RedirectStatus = 0
                                     THEN defaultRedirectStatus
                                   ELSE RecordOf(c.route).RedirectStatus
                     /\ c.location = c.destinationURL

LifecycleStep(h) ==
    conn'[h].pc # conn[h].pc => <<conn[h].pc, conn'[h].pc>> \in Lifecycle

Answered(status) ==
    {h \in DOMAIN conn : conn[h].pc = "Responded" /\ conn[h].status = status}

SelectedFor(id) ==
    {h \in DOMAIN conn : conn[h].route # 0 /\ routes[conn[h].route].ID = id}

C12_NoIncrementIsLost ==
    (\A h \in DOMAIN conn : conn[h].pc = "Responded") =>
        /\ metricsTotalCounter = Cardinality(DOMAIN conn)
        /\ metricsNotFoundCounter = Cardinality(Answered(StatusNotFound))
        /\ \A id \in RouteIDs :
             /\ metricsRouteChosenCounter[id] = Cardinality(SelectedFor(id))
             /\ metricsRouteMalformedDestinationCounter[id] =
                    Cardinality(SelectedFor(id) \cap Answered(StatusBadRequest))

\* All handlers have answered, at least two of them with a 404.
C12_Witness ==
    /\ Cardinality(DOMAIN conn) >= 2
    /\ \A h \in DOMAIN conn : conn[h].pc = "Responded"
    /\ Cardinality(Answered(StatusNotFound)) >= 2
    /\ metricsNotFoundCounter >= 2

(***************************************************************************)
(* C13.  The source URL is proto://host followed by the path and query of  *)
(* the request, with proto the first X-Forwarded-Proto value or "http",    *)
(* host the first X-Forwarded-Host value or the request's Host; the client *)
(* address is the first X-Forwarded-For value or the remote address.  Only *)
(* the first value of a repeated header counts.                            *)
(***************************************************************************)
FirstOr(header, local) == IF header # <<>> THEN Head(header) ELSE local

AfterSourceBuilt == AfterFindRoute \cup {"SourceBuilt"}

C13_SourceURLFromFirstHeaderValues ==
    \A h \in DOMAIN conn :
        conn[h].pc \in AfterSourceBuilt =>
            LET request == conn[h].request
            IN  /\ conn[h].sourceURL =
                       <<FirstOr(request.XForwardedProto, "http"), "://">>
                       \o FirstOr(request.XForwardedHost, request.Host)
                       \o RequestURI(request)
                /\ conn[h].realFrom = FirstOr(request.XForwardedFor, request.RemoteAddr)

\* The same for the requests whose target is a path (origin form).
C13_OriginFormSourceURL ==
    \A h \in DOMAIN conn :
        (conn[h].pc \in AfterSourceBuilt /\ conn[h].request.URL[1] \notin Schemes) =>
            LET request == conn[h].request
            IN  /\ conn[h].sourceURL =
                       <<FirstOr(request.XForwardedProto, "http"), "://">>
                       \o FirstOr(request.XForwardedHost, request.Host)
                       \o RequestURI(request)
                /\ conn[h].realFrom = FirstOr(request.XForwardedFor, request.RemoteAddr)

(***************************************************************************)
(* C14.  The checks of a record are made in the order id, source (missing  *)
(* or ambiguous), regular expressions, destination, redirect status: the   *)
(* error reported for a record is that of the first check, in this order,  *)
(* that the record violates.                                               *)
(***************************************************************************)
\* The check an error message belongs to.
CheckOf(err) ==
    IF err = "Route ID contains illegal characters" THEN "id"
    ELSE IF err \in {"Missing source URL", "Missing source URL or composite",
                     "Route can't contain both a source URL and any of the source composite fields"}
      THEN "source"
    ELSE IF err = "Route source URL regexp won't compile." \/ err \in Range(CompositeError)
      THEN "regex"
    ELSE IF err = "Missing destination URL" THEN "destination"
    ELSE IF err = "Invalid redirect status value" THEN "status"
    ELSE "none"

\* The first check of the stated order that record r violates.
FirstViolated(r) ==
    LET hasURL == r.SourceURL # EmptyString
        hasComposite == CompositeKeys(r) # NoComposite
    IN  IF ~compiledRouteIDPatternMatchString(r.ID) THEN "id"
        ELSE IF hasURL = hasComposite THEN "source"
        ELSE IF ~r.SourceURL.ok \/ \E k \in 1..5 : ~CompositeKeys(r)[k].ok THEN "regex"
        ELSE IF r.DestinationURL = <<>> THEN "destination"
        ELSE IF ~PassesChecks(r) THEN "status"
        ELSE "none"

C14_FirstViolatedCheckIsReported ==
    \A k \in 1..Len(stderr) :
        CheckOf(stderr[k][2]) = FirstViolated(file[stderr[k][1] + 1])

\* The same for the loader of main.go alone.
C14_FlatChecksInOrder ==
    variant = "flat" => C14_FirstViolatedCheckIsReported

(***************************************************************************)
(* C15.  The route list, the URL groups and the composite tree are written *)
(* during loading only, and loading is over before the first handler runs: *)
(* no handler has received a request while routes are loaded, serving      *)
(* never goes back to loading, and from then on no step, of whichever of   *)
(* the concurrent handlers, changes the list, the groups, the tree or a    *)
(* field of a route.                                                       *)
(***************************************************************************)
ruleIndex == <<routes, urlRoutes, compositeRoutes>>

C15_IndexIsReadOnlyWhileServing ==
    /\ [](\A h \in DOMAIN conn : conn[h].pc # "Idle" => phase = "serving")
    /\ [][phase = "serving" => phase' = "serving" /\ UNCHANGED ruleIndex]_vars
    /\ [][conn' # conn => UNCHANGED ruleIndex]_vars
    /\ [][~UNCHANGED ruleIndex => \A h \in DOMAIN conn : conn[h].pc = "Idle"]_vars

\* Two handlers are under way at once over loaded routes.
C15_Witness ==
    /\ phase = "serving"
    /\ Loaded # {}
    /\ \E g, h \in DOMAIN conn :
         /\ g # h
         /\ conn[g].pc \in {"Matched", "DestinationBuilt", "MalformedDestination"}
         /\ conn[h].pc \in {"SourceBuilt", "Matched", "Responded"}

(***************************************************************************)
(* C16.  Loading a rule is all or nothing for the index: a record for      *)
(* which loadRoute returns an error leaves the URL groups and the          *)
(* composite tree as they were, so that every URL group holds a rule and   *)
(* every node of the composite tree is on a path to a leaf that holds one. *)
(***************************************************************************)
\* Node `path` of the composite tree leads to a leaf with a rule.
LeadsToRule(path) ==
    \E leaf \in DOMAIN compositeRoutes :
        /\ Len(leaf) = 5
        /\ SubSeq(leaf, 1, Len(path)) = path
        /\ compositeRoutes[leaf].routes # <<>>

NoEmptyGroup ==
    /\ \A key \in DOMAIN urlRoutes : urlRoutes[key].routes # <<>>
    /\ \A path \in DOMAIN compositeRoutes : LeadsToRule(path)

C16_FailedLoadLeavesIndexAlone ==
    /\ [][stderr' # stderr => UNCHANGED <<urlRoutes, compositeRoutes>>]_vars
    /\ []NoEmptyGroup

\* The same for the records with a URL source.
C16_URLGroupsHoldARule ==
    \A key \in DOMAIN urlRoutes : urlRoutes[key].routes # <<>>

(***************************************************************************)
(* C17.  In the linear scan of main.go, of the loaded rules that match the *)
(* source URL and share the greatest priority, the one that comes first in *)
(* the route file is selected.                                             *)
(***************************************************************************)
\* The loaded rules of the flat build that match and have the top priority.
TopMatching(sourceURL) ==
    {i \in Candidates(sourceURL) :
        \A j \in Candidates(sourceURL) : routes[j].Priority <= routes[i].Priority}

C17_FirstInFileWinsTies ==
    \A h \in DOMAIN conn :
        (variant = "flat" /\ conn[h].pc \in AfterFindRoute
           /\ Candidates(conn[h].sourceURL) # {}) =>
            /\ conn[h].route \in TopMatching(conn[h].sourceURL)
            /\ \A j \in TopMatching(conn[h].sourceURL) : conn[h].route <= j
            /\ \A k \in 1..Len(routes) : SameRule(routes[k], SelectSeq(file, ShouldLoad)[k])

\* Two rules of the same priority match, and the first of the file is selected.
C17_Witness ==
    \E h \in DOMAIN conn :
        /\ variant = "flat"
        /\ conn[h].pc \in AfterFindRoute
        /\ Cardinality(TopMatching(conn[h].sourceURL)) >= 2
        /\ conn[h].route = 1
        /\ routes[1].ID # routes[2].ID

====
